---- MODULE Spec2Model ----
(***************************************************************************)
(* Contacts address book: the repository layer (src/src/repository/        *)
(* contacts.py) and the route handlers that call it (src/src/routes/       *)
(* contacts.py, src/src/routes/users.py).                                  *)
(*                                                                         *)
(* The contacts table is a set of rows.  An optional row (the result of    *)
(* scalar_one_or_none) is a set with at most one element: {} is None.      *)
(***************************************************************************)
EXTENDS Integers, Sequences, FiniteSets, TLC

\* ------------------------------------------------------------------ bounds
MaxId == 2
MaxUsers == 2
MaxDays == 5
MaxPaged == 15
MaxPages == 2
MaxClients == 2
MaxTime == 6

Users == 1..MaxUsers
Ids == 1..MaxId
NoUser == 0

\* Python's None, as the value of a nullable string column
NoneVal == "<None>"

\* ------------------------------------------------------- request payloads
\* ContactSchema instances.  "unset" lists the fields the client left out;
\* reading such a field of the schema object gives the schema default.
Bodies ==
  { [name |-> "Ann", surname |-> "Lee", email |-> "ann@x", phone_number |-> "111",
     birthday |-> <<2000, 2, 29>>, description |-> "friend", unset |-> {}],
    [name |-> "Bob", surname |-> "Kim", email |-> "bob@x", phone_number |-> "222",
     birthday |-> <<1999, 1, 2>>, description |-> NoneVal, unset |-> {"description"}] }

ContactFields == {"name", "surname", "email", "phone_number", "birthday", "description"}

\* filter values a client may send to GET /contacts/by_params (NoneVal: not sent)
NameParams == {NoneVal, "Ann", "ann"}
SurnameParams == {NoneVal, "Kim"}
EmailParams == {NoneVal, "bob@x"}

VARIABLES
  contacts,   \* the contacts table: a set of rows
  nextId,     \* the next value of the table's id sequence
  resp,       \* the last request and what it returned
  today,      \* date.today(), as <<year, month, day>>
  pages,      \* the results of the GET /contacts requests made so far
  route,      \* the route the rate-limited requests go to
  now,        \* the clock, in seconds
  limiter,    \* per client: the limiter's counter for route and when it expires
  recent,     \* per client: when route served it within the last Seconds seconds
  users,      \* the users table: a set of rows, keyed by email
  procs,      \* the update and the delete request in flight: where each stands
  app_env     \* config.APP_ENV

vars == <<contacts, nextId, resp, today, pages, route, now, limiter, recent,
          users, procs, app_env>>

\* the accounts, the requests in flight and the configuration
rest == <<users, procs, app_env>>

\* the limiter's state and the clock
gate == <<route, now, limiter, recent>>

\* what the contacts requests of Spec leave alone
env == <<today, pages, gate, rest>>

\* ------------------------------------------------------------ repository
\* get_contact with the owner filter dropped (filter_by(id=contact_id) only)
get_contact_AnyOwner(contact_id, db, user) ==
  {c \in db : c.id = contact_id}

\* select(Contact).filter_by(id=contact_id, user=user) ... scalar_one_or_none()
get_contact(contact_id, db, user) ==
  {c \in db : c.id = contact_id /\ c.user = user}

\* Contact(**body.model_dump(exclude_unset=True), user=user): the columns of
\* the dumped fields take the payload value, every other column is NULL.
NewContact(body, user, id) ==
  LET dumped == ContactFields \ body.unset
      col(f) == IF f \in dumped THEN body[f] ELSE NoneVal
  IN [id |-> id, user |-> user,
      name |-> col("name"), surname |-> col("surname"), email |-> col("email"),
      phone_number |-> col("phone_number"), birthday |-> col("birthday"),
      description |-> col("description")]

\* the id column is a surrogate key drawn from the table's sequence at commit
AssignId(seq) == [id |-> seq, seq |-> seq + 1]

\* create_contact without db.add: the row is built and returned, never stored
create_contact_NoAdd(body, db, user, seq) ==
  LET a == AssignId(seq)
      contact == NewContact(body, user, a.id)
  IN [db |-> db, ret |-> {contact}, seq |-> a.seq]

\* db.add(contact); db.commit(); db.refresh(contact); return contact
create_contact(body, db, user, seq) ==
  LET a == AssignId(seq)
      contact == NewContact(body, user, a.id)
  IN [db |-> db \cup {contact}, ret |-> {contact}, seq |-> a.seq]

\* a partial merge: description is only written when the payload carries one
Overwrite_Merge(contact, body) ==
  [contact EXCEPT !.name = body.name, !.surname = body.surname,
                  !.email = body.email, !.phone_number = body.phone_number,
                  !.birthday = body.birthday,
                  !.description = IF body.description = NoneVal THEN @ ELSE body.description]

\* the six assignments of update_contact, applied to the row found
Overwrite(contact, body) ==
  [contact EXCEPT !.name = body.name, !.surname = body.surname,
                  !.email = body.email, !.phone_number = body.phone_number,
                  !.birthday = body.birthday, !.description = body.description]

\* update_contact with create-on-missing (upsert)
update_contact_Upsert(contact_id, body, db, user) ==
  LET found == {c \in db : c.id = contact_id /\ c.user = user}
  IN IF found # {}
     THEN LET contact == CHOOSE c \in found : TRUE
              updated == Overwrite(contact, body)
          IN [db |-> (db \ {contact}) \cup {updated}, ret |-> {updated}]
     ELSE [db |-> db \cup {NewContact(body, user, contact_id)}, ret |-> {}]

update_contact(contact_id, body, db, user) ==
  LET found == {c \in db : c.id = contact_id /\ c.user = user}
  IN IF found # {}
     THEN LET contact == CHOOSE c \in found : TRUE
              updated == Overwrite(contact, body)
          IN [db |-> (db \ {contact}) \cup {updated}, ret |-> {updated}]
     ELSE [db |-> db, ret |-> {}]

\* delete_contact without db.delete: the row is returned but stays stored
delete_contact_NoDelete(contact_id, db, user) ==
  LET found == {c \in db : c.id = contact_id /\ c.user = user}
  IN [db |-> db, ret |-> found]

delete_contact(contact_id, db, user) ==
  LET found == {c \in db : c.id = contact_id /\ c.user = user}
  IN IF found # {}
     THEN [db |-> db \ found, ret |-> found]
     ELSE [db |-> db, ret |-> {}]

\* the columns get_contacts_by_params selects: every column but the owner
Columns(c) ==
  [id |-> c.id, name |-> c.name, surname |-> c.surname, email |-> c.email,
   phone_number |-> c.phone_number, birthday |-> c.birthday,
   description |-> c.description]

\* get_contacts_by_params with every supplied filter applied (an AND of the
\* filters instead of the first one only)
get_contacts_by_params_AllFilters(name, surname, email, db, user) ==
  IF name = NoneVal /\ surname = NoneVal /\ email = NoneVal
  THEN [raised |-> TRUE, ret |-> {}]
  ELSE [raised |-> FALSE,
        ret |-> {Columns(c) : c \in {x \in db : /\ name # NoneVal => x.name = name
                                                /\ surname # NoneVal => x.surname = surname
                                                /\ email # NoneVal => x.email = email}}]

\* the if / elif chain: the statement is built from the first filter that is
\* not None; with none of them, stmt is never bound and execute(stmt) raises.
get_contacts_by_params(name, surname, email, db, user) ==
  IF name # NoneVal
  THEN [raised |-> FALSE, ret |-> {Columns(c) : c \in {x \in db : x.name = name}}]
  ELSE IF surname # NoneVal
  THEN [raised |-> FALSE, ret |-> {Columns(c) : c \in {x \in db : x.surname = surname}}]
  ELSE IF email # NoneVal
  THEN [raised |-> FALSE, ret |-> {Columns(c) : c \in {x \in db : x.email = email}}]
  ELSE [raised |-> TRUE, ret |-> {}]


\* ------------------------------------------------------------ accounts
\* The users repository and the auth routes, as the specification describes
\* them (User Account Service, Auth Session Gate, the auth endpoints).
Emails == {"spiderman@example.com", "batman@example.com"}
Passwords == {"12345678", "87654321"}

\* the one-way hash of a password, and its check
get_password_hash(password) == <<"hash", password>>
verify_password(plain, hashed) == get_password_hash(plain) = hashed

\* the token pair a login issues for an account
TokenPair(email) == {<<"access", email>>, <<"refresh", email>>}

\* find_by_email: the account or None
get_user_by_email(email, db) == {u \in db : u.email = email}

\* create: a new account, not confirmed, with no refresh token
create_user(email, hashed, db) ==
  db \cup {[email |-> email, password |-> hashed, confirmed |-> FALSE,
            refresh_token |-> <<>>]}

\* set_confirmed
confirmed_email(email, db) ==
  {IF u.email = email THEN [u EXCEPT !.confirmed = TRUE] ELSE u : u \in db}

\* rotate_refresh_token
update_token(email, token, db) ==
  {IF u.email = email THEN [u EXCEPT !.refresh_token = token] ELSE u : u \in db}

\* signup that stores the account without looking for the email first
signup_NoCheck(email, password, db) ==
  [db |-> create_user(email, get_password_hash(password), db),
   status |-> 201, detail |-> "created"]

\* POST /auth/signup: 409 when the email has an account, else the account is
\* stored with the hashed password and the answer is 201
signup(email, password, db) ==
  IF get_user_by_email(email, db) # {}
  THEN [db |-> db, status |-> 409, detail |-> "AccountExists"]
  ELSE [db |-> create_user(email, get_password_hash(password), db),
        status |-> 201, detail |-> "created"]

\* login that checks the password only
login_NoConfirmCheck(email, password, db) ==
  LET found == get_user_by_email(email, db)
  IN IF found = {}
     THEN [db |-> db, status |-> 401, detail |-> "InvalidEmail", tokens |-> {}]
     ELSE IF ~ verify_password(password, (CHOOSE u \in found : TRUE).password)
     THEN [db |-> db, status |-> 401, detail |-> "InvalidPassword", tokens |-> {}]
     ELSE [db |-> update_token(email, <<"refresh", email>>, db), status |-> 200,
           detail |-> "ok", tokens |-> TokenPair(email)]

\* POST /auth/login: 401 for an unknown email, 401 NotConfirmed for an account
\* that is not confirmed, 401 for a wrong password; else the token pair is
\* issued and the refresh token stored
login(email, password, db) ==
  LET found == get_user_by_email(email, db)
  IN IF found = {}
     THEN [db |-> db, status |-> 401, detail |-> "InvalidEmail", tokens |-> {}]
     ELSE IF ~ (CHOOSE u \in found : TRUE).confirmed
     THEN [db |-> db, status |-> 401, detail |-> "NotConfirmed", tokens |-> {}]
     ELSE IF ~ verify_password(password, (CHOOSE u \in found : TRUE).password)
     THEN [db |-> db, status |-> 401, detail |-> "InvalidPassword", tokens |-> {}]
     ELSE [db |-> update_token(email, <<"refresh", email>>, db), status |-> 200,
           detail |-> "ok", tokens |-> TokenPair(email)]

\* ------------------------------------------------------------- calendar
IsLeap(y) == (y % 4 = 0 /\ y % 100 # 0) \/ y % 400 = 0

DaysInMonth(y, m) ==
  IF m = 2 THEN (IF IsLeap(y) THEN 29 ELSE 28)
  ELSE IF m \in {4, 6, 9, 11} THEN 30 ELSE 31

ValidDate(y, m, d) == m \in 1..12 /\ d >= 1 /\ d <= DaysInMonth(y, m)

\* a <= b on dates <<year, month, day>>
DateLE(a, b) ==
  \/ a[1] < b[1]
  \/ a[1] = b[1] /\ a[2] < b[2]
  \/ a[1] = b[1] /\ a[2] = b[2] /\ a[3] <= b[3]

NextDay(dt) ==
  IF dt[3] < DaysInMonth(dt[1], dt[2]) THEN <<dt[1], dt[2], dt[3] + 1>>
  ELSE IF dt[2] < 12 THEN <<dt[1], dt[2] + 1, 1>>
  ELSE <<dt[1] + 1, 1, 1>>

\* date + timedelta(days=n), n >= 0
RECURSIVE AddDays(_, _)
AddDays(dt, n) == IF n = 0 THEN dt ELSE AddDays(NextDay(dt), n - 1)

\* ---------------------------------------------- get_birthday_contacts
\* to_char(Contact.birthday, "DDMM"): the day and month digits
to_char_DDMM(birthday) == <<birthday[3], birthday[2]>>

\* concat(<DDMM>, year): the text DDMMYYYY
concat(ddmm, year) == <<ddmm[1], ddmm[2], year>>

\* to_date(text, "DDMMYYYY"): the date the digits name; the database rejects
\* digits that name no calendar day (29 02 of a common year) with an error
to_date(ddmmyyyy) ==
  IF ValidDate(ddmmyyyy[3], ddmmyyyy[2], ddmmyyyy[1])
  THEN [ok |-> TRUE, date |-> <<ddmmyyyy[3], ddmmyyyy[2], ddmmyyyy[1]>>]
  ELSE [ok |-> FALSE, date |-> <<0, 0, 0>>]

\* x BETWEEN lo AND hi
between(x, lo, hi) == DateLE(lo, x) /\ DateLE(x, hi)

\* The or_(...) of one row: "match", "nomatch" or "error".  SQL leaves the
\* order in which the two operands are evaluated open, so a row whose one
\* candidate is in the window and whose other candidate is no date may
\* match (the failing operand is never evaluated) or fail.
BirthdayFilter(birthday, dateFrom, dateTo, thisYear, nextYear) ==
  LET c1 == to_date(concat(to_char_DDMM(birthday), thisYear))
      c2 == to_date(concat(to_char_DDMM(birthday), nextYear))
      in1 == c1.ok /\ between(c1.date, dateFrom, dateTo)
      in2 == c2.ok /\ between(c2.date, dateFrom, dateTo)
  IN IF c1.ok /\ c2.ok
     THEN {IF in1 \/ in2 THEN "match" ELSE "nomatch"}
     ELSE IF in1 \/ in2 THEN {"match", "error"} ELSE {"error"}

\* The outcomes of the query: the rows of user whose filter matches, or a
\* failed statement.  A row of user that fails fails the statement; whether
\* the date filter is evaluated at all on a row of another user is up to the
\* database, so such a row may fail the statement or be skipped.
get_birthday_contacts(days, db, user, tdy) ==
  LET dateFrom == tdy
      dateTo == AddDays(tdy, days)
      thisYear == dateFrom[1]
      nextYear == dateFrom[1] + 1
      f == [c \in db |-> BirthdayFilter(c.birthday, dateFrom, dateTo, thisYear, nextYear)]
      own == {c \in db : c.user = user}
      sure == {c \in own : f[c] = {"match"}}
      maybe == {c \in own : f[c] = {"match", "error"}}
      ownMustFail == \E c \in own : f[c] = {"error"}
      mayFail == \E c \in db : "error" \in f[c]
  IN (IF ownMustFail THEN {}
      ELSE {[raised |-> FALSE, ret |-> sure \cup maybe]})
     \cup (IF mayFail THEN {[raised |-> TRUE, ret |-> {}]} ELSE {})

\* ------------------------------------------------------- get_contacts
\* the rows of a set in ascending id: the order they were inserted in
RECURSIVE ById(_)
ById(rows) ==
  IF rows = {} THEN <<>>
  ELSE LET first == CHOOSE c \in rows : \A x \in rows : c.id <= x.id
       IN <<first>> \o ById(rows \ {first})

Rotate(seq, k) ==
  [i \in 1..Len(seq) |-> seq[((i - 1 + k) % Len(seq)) + 1]]

\* The statement has no ORDER BY, so the order of its rows is whatever the
\* scan produces, and may differ from one execution to the next.  The orders
\* modelled are those of a sequential scan that starts at any row of the
\* table and wraps around.
ScanOrders(rows) ==
  IF rows = {} THEN {<<>>}
  ELSE {Rotate(ById(rows), k) : k \in 0..(Cardinality(rows) - 1)}

\* rows[offset + 1 .. offset + limit]
OffsetLimit(rows, offset, limit) ==
  SubSeq(rows, offset + 1, IF offset + limit < Len(rows) THEN offset + limit ELSE Len(rows))

\* select(Contact).filter_by(user=user).offset(offset).limit(limit): the
\* results the statement may give
get_contacts(limit, offset, db, user) ==
  {OffsetLimit(rows, offset, limit) : rows \in ScanOrders({c \in db : c.user = user})}

\* ------------------------------------------------------------------ state
NoParams == <<NoneVal, NoneVal, NoneVal>>

\* --------------------------------------------------- the limiter's gate
Routes ==
  {"GET /contacts/", "GET /contacts/{contact_id}", "GET /contacts/birthday/{birthday_days}",
   "POST /contacts/", "PUT /contacts/{contact_id}", "DELETE /contacts/{contact_id}",
   "GET /contacts/by_params/", "GET /users/me", "PATCH /users/avatar"}

\* the routes whose decorator carries Depends(RateLimiter(times=2, seconds=5))
RateLimited(r) ==
  r \in {"GET /contacts/", "GET /contacts/{contact_id}",
         "GET /contacts/birthday/{birthday_days}", "POST /contacts/",
         "GET /users/me", "PATCH /users/avatar"}

\* every route takes user: User = Depends(auth_service.get_current_user)
RequiresUser(r) == r \in Routes

\* RateLimiter(times=2, seconds=5)
Times == 2
Seconds == 5

Clients == 1..MaxClients

\* the bearer credentials a request may carry: none, or a user's access token
NoToken == 0
Tokens == {NoToken} \cup Users

\* auth_service.get_current_user: the user the token resolves to, if any
get_current_user(token) == IF token \in Users THEN {token} ELSE {}

NoCount == [count |-> 0, expires |-> 0]

GateIdle ==
  /\ route = "GET /contacts/"
  /\ now = 0
  /\ limiter = [c \in Clients |-> NoCount]
  /\ recent = [c \in Clients |-> <<>>]

\* no request in flight
NoProc == [pc |-> "idle", user |-> NoUser, id |-> 0, body |-> {}, found |-> {}, out |-> "none"]

\* start: the table as it was when the two requests arrived
NoProcs == [upd |-> NoProc, del |-> NoProc, start |-> {}]

RestIdle ==
  /\ users = {}
  /\ procs = NoProcs
  /\ app_env = "production"

NoResp ==
  [op |-> "none", user |-> NoUser, id |-> 0, body |-> {}, params |-> NoParams,
   days |-> 0, before |-> {}, ret |-> {}, status |-> 0]

Init ==
  /\ contacts = {}
  /\ nextId = 1
  /\ resp = NoResp
  /\ today = <<2024, 2, 28>>
  /\ pages = <<>>
  /\ RestIdle
  /\ GateIdle

\* ---------------------------------------------------------- route handlers
\* POST /contacts
route_create_contact(user, body) ==
  /\ nextId <= MaxId
  /\ LET r == create_contact(body, contacts, user, nextId)
     IN /\ contacts' = r.db
        /\ nextId' = r.seq
        /\ resp' = [NoResp EXCEPT !.op = "create", !.user = user, !.body = {body},
                                  !.ret = r.ret, !.status = 201]
  /\ UNCHANGED env

\* GET /contacts/{contact_id}
route_get_contact(user, contact_id) ==
  /\ LET contact == get_contact(contact_id, contacts, user)
     IN resp' = [NoResp EXCEPT !.op = "get", !.user = user, !.id = contact_id,
                               !.ret = contact,
                               !.status = IF contact = {} THEN 404 ELSE 200]
  /\ UNCHANGED <<contacts, nextId, env>>

\* PUT /contacts/{contact_id}
route_update_contact(user, contact_id, body) ==
  /\ LET r == update_contact(contact_id, body, contacts, user)
     IN /\ contacts' = r.db
        /\ resp' = [NoResp EXCEPT !.op = "update", !.user = user, !.id = contact_id,
                                  !.body = {body},
                                  !.before = {c \in contacts : c.id = contact_id /\ c.user = user},
                                  !.ret = r.ret,
                                  !.status = IF r.ret = {} THEN 404 ELSE 200]
  /\ UNCHANGED <<nextId, env>>

\* contact.scalars(): delete_contact returns a Contact or None, and neither
\* has a scalars attribute, so the call raises AttributeError
HasScalars(kind) == kind = "Result"

\* DELETE /contacts/{contact_id}
route_delete_contact(user, contact_id) ==
  /\ LET r == delete_contact(contact_id, contacts, user)
         kind == IF r.ret = {} THEN "None" ELSE "Contact"
     IN /\ contacts' = r.db
        /\ resp' = [NoResp EXCEPT !.op = "delete", !.user = user, !.id = contact_id,
                                  !.before = {c \in contacts : c.id = contact_id /\ c.user = user},
                                  !.ret = r.ret,
                                  !.status = IF HasScalars(kind) THEN 204 ELSE 500]
  /\ UNCHANGED <<nextId, env>>

\* GET /contacts/by_params
route_get_contacts_by_params(user, name, surname, email) ==
  /\ LET r == get_contacts_by_params(name, surname, email, contacts, user)
     IN resp' = [NoResp EXCEPT !.op = "by_params", !.user = user,
                               !.params = <<name, surname, email>>,
                               !.ret = r.ret,
                               !.status = IF r.raised THEN 500 ELSE 200]
  /\ UNCHANGED <<contacts, nextId, env>>

Next ==
  \/ \E u \in Users, b \in Bodies : route_create_contact(u, b)
  \/ \E u \in Users, i \in Ids : route_get_contact(u, i)
  \/ \E u \in Users, i \in Ids, b \in Bodies : route_update_contact(u, i, b)
  \/ \E u \in Users, i \in Ids : route_delete_contact(u, i)
  \/ \E u \in Users, n \in NameParams, s \in SurnameParams, e \in EmailParams :
       route_get_contacts_by_params(u, n, s, e)

Spec == Init /\ [][Next]_vars

\* ------------------------------------------------- the birthday query
\* GET /contacts/birthday/{birthday_days}
route_get_birthday_contacts(user, birthday_days) ==
  /\ \E r \in get_birthday_contacts(birthday_days, contacts, user, today) :
       resp' = [NoResp EXCEPT !.op = "birthdays", !.user = user,
                              !.days = birthday_days, !.ret = r.ret,
                              !.status = IF r.raised THEN 500 ELSE 200]
  /\ UNCHANGED <<contacts, nextId, today, pages, gate, rest>>

\* the years date.today() ranges over: a common year and a leap year
Years == {2023, 2024}

\* the months date.today() ranges over: around the turn of the year, around
\* the end of February, and around 1 June
Months == {1, 2, 3, 5, 6, 12}

Dates == {<<y, m, d>> \in Years \X Months \X (1..31) : ValidDate(y, m, d)}

\* the birthdays stored in the tables the birthday query is run on
Birthdays == {<<1999, 1, 2>>, <<1990, 6, 1>>, <<2000, 2, 29>>}

BirthdayBody(b) ==
  [name |-> "Ann", surname |-> "Lee", email |-> "ann@x", phone_number |-> "111",
   birthday |-> b, description |-> NoneVal, unset |-> {"description"}]

\* two stored contacts, the first owned by user 1, with any of the birthdays
InitBirthday ==
  /\ \E b1 \in Birthdays, b2 \in Birthdays, u2 \in Users :
       contacts = {NewContact(BirthdayBody(b1), 1, 1), NewContact(BirthdayBody(b2), u2, 2)}
  /\ nextId = 3
  /\ resp = NoResp
  /\ today \in Dates
  /\ pages = <<>>
  /\ RestIdle
  /\ GateIdle

NextBirthday ==
  \E u \in Users, days \in 0..MaxDays : route_get_birthday_contacts(u, days)

SpecBirthday == InitBirthday /\ [][NextBirthday]_vars

\* ------------------------------------------------------------ the accounts
\* what the auth requests leave alone
authFrame == <<contacts, nextId, today, pages, gate, procs, app_env>>

route_signup(email, password) ==
  /\ LET r == signup(email, password, users)
     IN /\ users' = r.db
        /\ resp' = [NoResp EXCEPT !.op = "signup", !.params = <<email, password, r.detail>>,
                                  !.status = r.status]
  /\ UNCHANGED authFrame

route_login(email, password) ==
  /\ LET r == login(email, password, users)
     IN /\ users' = r.db
        /\ resp' = [NoResp EXCEPT !.op = "login", !.params = <<email, password, r.detail>>,
                                  !.ret = r.tokens, !.status = r.status]
  /\ UNCHANGED authFrame

\* GET /auth/confirmed_email/{token}, the token being the one mailed to email
route_confirmed_email(email) ==
  /\ LET found == get_user_by_email(email, users)
     IN IF found = {}
        THEN /\ users' = users
             /\ resp' = [NoResp EXCEPT !.op = "confirm",
                                       !.params = <<email, NoneVal, "VerificationError">>,
                                       !.status = 400]
        ELSE /\ users' = confirmed_email(email, users)
             /\ resp' = [NoResp EXCEPT !.op = "confirm",
                                       !.params = <<email, NoneVal, "confirmed">>,
                                       !.status = 200]
  /\ UNCHANGED authFrame

NextAuth ==
  \/ \E e \in Emails, p \in Passwords : route_signup(e, p)
  \/ \E e \in Emails, p \in Passwords : route_login(e, p)
  \/ \E e \in Emails : route_confirmed_email(e)

SpecAuth == Init /\ [][NextAuth]_vars

\* ------------------------------------------- an update racing a delete
\* update_contact and delete_contact each run in a session of their own: a
\* SELECT, then (if a row came back) the write flushed by db.commit(). Nothing
\* locks the row between the two steps.
raceFrame == <<nextId, resp, today, pages, gate, users, app_env>>

\* update_contact, lines 97-99: the SELECT
UpdateRead ==
  /\ procs.upd.pc = "start"
  /\ LET found == get_contact(procs.upd.id, contacts, procs.upd.user)
     IN procs' = [procs EXCEPT !.upd.found = found,
                               !.upd.pc = IF found = {} THEN "done" ELSE "read",
                               !.upd.out = IF found = {} THEN "None" ELSE "none"]
  /\ UNCHANGED <<contacts, raceFrame>>

\* update_contact, lines 100-108: the assignments, commit and refresh. The
\* UPDATE is keyed by the primary key of the row read; when that row is gone
\* it matches no row (or, with nothing to write, the refresh finds no row) and
\* the call raises.
UpdateCommit ==
  /\ procs.upd.pc = "read"
  /\ LET contact == CHOOSE c \in procs.upd.found : TRUE
         stored == {c \in contacts : c.id = contact.id}
     IN IF stored = {}
        THEN /\ contacts' = contacts
             /\ procs' = [procs EXCEPT !.upd.pc = "done", !.upd.out = "raised"]
        ELSE /\ contacts' = (contacts \ stored) \cup {Overwrite(contact, procs.upd.body)}
             /\ procs' = [procs EXCEPT !.upd.pc = "done", !.upd.out = "updated"]
  /\ UNCHANGED raceFrame

\* delete_contact, lines 122-124: the SELECT
DeleteRead ==
  /\ procs.del.pc = "start"
  /\ LET found == get_contact(procs.del.id, contacts, procs.del.user)
     IN procs' = [procs EXCEPT !.del.found = found,
                               !.del.pc = IF found = {} THEN "done" ELSE "read",
                               !.del.out = IF found = {} THEN "None" ELSE "none"]
  /\ UNCHANGED <<contacts, raceFrame>>

\* delete_contact, lines 125-127: db.delete and commit; the DELETE is keyed by
\* the primary key of the row read
DeleteCommit ==
  /\ procs.del.pc = "read"
  /\ LET contact == CHOOSE c \in procs.del.found : TRUE
     IN contacts' = {c \in contacts : c.id # contact.id}
  /\ procs' = [procs EXCEPT !.del.pc = "done", !.del.out = "deleted"]
  /\ UNCHANGED raceFrame

\* a table of at most one row per id, an update and a delete just arrived
InitRace ==
  /\ \E owner \in [Ids -> Users \cup {NoUser}], b \in Bodies :
       contacts = {NewContact(b, owner[i], i) : i \in {j \in Ids : owner[j] # NoUser}}
  /\ nextId = MaxId + 1
  /\ resp = NoResp
  /\ today = <<2024, 2, 28>>
  /\ pages = <<>>
  /\ users = {}
  /\ app_env = "production"
  /\ GateIdle
  /\ \E uu \in Users, ui \in Ids, ub \in Bodies, du \in Users, di \in Ids :
       procs = [upd |-> [NoProc EXCEPT !.pc = "start", !.user = uu, !.id = ui, !.body = ub],
                del |-> [NoProc EXCEPT !.pc = "start", !.user = du, !.id = di],
                start |-> contacts]

NextRace ==
  \/ UpdateRead
  \/ UpdateCommit
  \/ DeleteRead
  \/ DeleteCommit

SpecRace == InitRace /\ [][NextRace]_vars

\* ------------------------------------------------- the ban_ips middleware
\* request.client.host as the server reports it
Hosts == {"192.168.255.1", "192.168.255.2", "127.0.0.1", "testclient"}

\* ipaddress.ip_address: the address a dotted quad denotes; any other text
\* makes it raise ValueError
ip_address(host) ==
  CASE host = "192.168.255.1" -> [raised |-> FALSE, value |-> <<192, 168, 255, 1>>]
    [] host = "192.168.255.2" -> [raised |-> FALSE, value |-> <<192, 168, 255, 2>>]
    [] host = "127.0.0.1" -> [raised |-> FALSE, value |-> <<127, 0, 0, 1>>]
    [] OTHER -> [raised |-> TRUE, value |-> <<>>]

\* the module-level list: the same address twice
banned_ips == <<ip_address("192.168.255.1").value, ip_address("192.168.255.1").value>>

\* config.APP_ENV
Envs == {"production", "development"}

\* what call_next(request) may answer
Responses ==
  {[status |-> 200, detail |-> "ok"], [status |-> 404, detail |-> "Not found"],
   [status |-> 403, detail |-> "Forbidden"]}

\* the middleware: in production the host is parsed and looked up in
\* banned_ips; in every other case the request goes to call_next and its
\* response is returned
ban_ips(app_env_value, host, next) ==
  IF app_env_value = "production" /\ ip_address(host).raised
  THEN [called |-> FALSE, raised |-> TRUE, response |-> [status |-> 500, detail |-> "ValueError"]]
  ELSE IF app_env_value = "production" /\ \E i \in DOMAIN banned_ips : banned_ips[i] = ip_address(host).value
  THEN [called |-> FALSE, raised |-> FALSE,
        response |-> [status |-> 403, detail |-> "You are banned"]]
  ELSE [called |-> TRUE, raised |-> FALSE, response |-> next]

\* one request through the middleware; next is the answer the rest of the
\* application would give
handle_request(host, r, next) ==
  /\ route' = r
  /\ LET m == ban_ips(app_env, host, next)
     IN resp' = [NoResp EXCEPT !.op = "ban",
                               !.params = <<host, m.response.detail,
                                            IF m.called THEN "called" ELSE "not called">>,
                               !.before = IF m.called THEN {next} ELSE {},
                               !.ret = IF m.raised THEN {} ELSE {m.response},
                               !.status = m.response.status]
  /\ UNCHANGED <<contacts, nextId, today, pages, now, limiter, recent, rest>>

InitBan ==
  /\ contacts = {}
  /\ nextId = 1
  /\ resp = NoResp
  /\ today = <<2024, 2, 28>>
  /\ pages = <<>>
  /\ users = {}
  /\ procs = NoProcs
  /\ app_env \in Envs
  /\ GateIdle

NextBan ==
  \E host \in Hosts, r \in Routes, next \in Responses : handle_request(host, r, next)

SpecBan == InitBan /\ [][NextBan]_vars

\* what the caller of each function sees
Outcome(ret, word) == IF ret = {} THEN "None" ELSE word

\* the two serial orders of update_contact and delete_contact on the table db
SerialOutcomes(db, upd, del) ==
  LET u1 == update_contact(upd.id, upd.body, db, upd.user)
      d1 == delete_contact(del.id, u1.db, del.user)
      d2 == delete_contact(del.id, db, del.user)
      u2 == update_contact(upd.id, upd.body, d2.db, upd.user)
  IN {[upd |-> Outcome(u1.ret, "updated"), del |-> Outcome(d1.ret, "deleted"), db |-> d1.db],
      [upd |-> Outcome(u2.ret, "updated"), del |-> Outcome(d2.ret, "deleted"), db |-> u2.db]}

\* ------------------------------------------------------------- paging
\* GET /contacts
route_get_contacts(user, limit, offset) ==
  /\ Len(pages) < MaxPages
  /\ \E result \in get_contacts(limit, offset, contacts, user) :
       /\ pages' = Append(pages, [user |-> user, limit |-> limit, offset |-> offset,
                                  ret |-> result])
       /\ resp' = [NoResp EXCEPT !.op = "list", !.user = user, !.status = 200]
  /\ UNCHANGED <<contacts, nextId, today, gate, rest>>

\* limit: int = Query(10, ge=10, le=500)
DefaultLimit == 10

\* MaxPaged contacts of user 1 and one contact of every other user
InitPage ==
  /\ contacts = {NewContact(BirthdayBody(<<1999, 1, 2>>), 1, i) : i \in 1..MaxPaged}
                \cup {NewContact(BirthdayBody(<<1990, 6, 1>>), u, MaxPaged + u) : u \in Users \ {1}}
  /\ nextId = MaxPaged + MaxUsers + 1
  /\ resp = NoResp
  /\ today = <<2024, 2, 28>>
  /\ pages = <<>>
  /\ RestIdle
  /\ GateIdle

NextPage ==
  \E u \in Users, offset \in {0, DefaultLimit} : route_get_contacts(u, DefaultLimit, offset)

SpecPage == InitPage /\ [][NextPage]_vars

\* -------------------------------------------------------- rate limiting
\* One request of a client to route: the limiter dependency of the decorator
\* runs first and answers 429 once the counter of the running window stands at
\* Times; the counter starts at 1, expiring Seconds later, when there is none.
\* Then the user is resolved (401 without one), then the handler runs.
Request(client, token) ==
  /\ Len(recent[client]) <= Times
  /\ LET st == limiter[client]
         live == st.count > 0 /\ now < st.expires
         refused == RateLimited(route) /\ live /\ st.count + 1 > Times
         user == IF RequiresUser(route) THEN get_current_user(token) ELSE {NoUser}
     IN IF refused
        THEN /\ resp' = [NoResp EXCEPT !.op = route, !.id = client, !.status = 429]
             /\ UNCHANGED <<limiter, recent>>
        ELSE /\ limiter' = IF ~ RateLimited(route) THEN limiter
                           ELSE IF live
                           THEN [limiter EXCEPT ![client].count = @ + 1]
                           ELSE [limiter EXCEPT ![client] =
                                   [count |-> 1, expires |-> now + Seconds]]
             /\ IF user = {}
                THEN /\ resp' = [NoResp EXCEPT !.op = route, !.id = client, !.status = 401]
                     /\ UNCHANGED recent
                ELSE /\ resp' = [NoResp EXCEPT !.op = route, !.id = client,
                                               !.user = CHOOSE u \in user : TRUE,
                                               !.status = 200]
                     /\ recent' = [recent EXCEPT ![client] = Append(@, now)]
  /\ UNCHANGED <<contacts, nextId, today, pages, route, now, rest>>

\* a second passes; calls served Seconds or more seconds ago leave the window
Tick ==
  /\ now < MaxTime
  /\ now' = now + 1
  /\ recent' = [c \in Clients |-> SelectSeq(recent[c], LAMBDA t : t > now' - Seconds)]
  /\ UNCHANGED <<contacts, nextId, resp, today, pages, route, limiter, rest>>

InitRate ==
  /\ contacts = {}
  /\ nextId = 1
  /\ resp = NoResp
  /\ today = <<2024, 2, 28>>
  /\ pages = <<>>
  /\ RestIdle
  /\ route \in Routes
  /\ now = 0
  /\ limiter = [c \in Clients |-> NoCount]
  /\ recent = [c \in Clients |-> <<>>]

NextRate ==
  \/ \E c \in Clients, t \in Tokens : Request(c, t)
  \/ Tick

SpecRate == InitRate /\ [][NextRate]_vars

\* ------------------------------------------------------------------ claims
\* the row update_contact leaves for contact c and payload b
Replaced(c, b) ==
  [id |-> c.id, user |-> c.user, name |-> b.name, surname |-> b.surname,
   email |-> b.email, phone_number |-> b.phone_number, birthday |-> b.birthday,
   description |-> b.description]

\* C1: for owners A # B and every contact stored under A, get, update and
\* delete by B on its id return not found (404 from the get and update
\* routes) and leave the contact stored under A exactly as it was.
C1_OwnerIsolation ==
  /\ [](\A c \in contacts : \A B \in Users \ {c.user} :
          get_contact(c.id, contacts, B) = {})
  /\ [][\A c \in contacts :
          (/\ resp'.op \in {"get", "update", "delete"}
           /\ c.id = resp'.id /\ c.user # resp'.user
           /\ \/ route_get_contact(resp'.user, resp'.id)
              \/ \E b \in resp'.body : route_update_contact(resp'.user, resp'.id, b)
              \/ route_delete_contact(resp'.user, resp'.id))
            => /\ resp'.ret = {}
               /\ c \in contacts'
               /\ resp'.op \in {"get", "update"} => resp'.status = 404]_vars

\* a non-owner's delete of an existing contact came back not found
W_C1 ==
  /\ resp.op = "delete" /\ resp.ret = {}
  /\ \E c \in contacts : c.id = resp.id /\ c.user # resp.user

\* C2: every contact list_by_field returns is owned by the calling owner.
CE_C2_ByParamsOwnerScoped ==
  resp.op = "by_params" =>
    \A r \in resp.ret : \E c \in contacts : c.id = r.id /\ c.user = resp.user

\* C3: DELETE /contacts/{id} answers 204 when the caller owns a contact with
\* that id (and removes it), 404 otherwise, and nothing else.
CE_C3_DeleteStatus ==
  resp.op = "delete" =>
    IF resp.before # {}
    THEN resp.status = 204 /\ resp.before \cap contacts = {}
    ELSE resp.status = 404

\* C4: update on an id for which the owner has no contact returns not found
\* and leaves the table exactly as it was (no upsert).
C4_UpdateMissingNoMutation ==
  [][(/\ resp'.op = "update"
      /\ \E b \in resp'.body : route_update_contact(resp'.user, resp'.id, b)
      /\ ~ \E c \in contacts : c.id = resp'.id /\ c.user = resp'.user)
       => (resp'.ret = {} /\ resp'.status = 404 /\ contacts' = contacts)]_vars

\* an update answered 404 while the table holds contacts
W_C4 ==
  resp.op = "update" /\ resp.status = 404 /\ resp.ret = {} /\ contacts # {}

\* C5: update on an owned contact writes every one of the six fields from the
\* payload (a payload without description clears a stored one), keeps id and
\* owner, and touches no other contact.
C5_UpdateFullReplace ==
  [][\A b \in resp'.body : \A c \in contacts :
       (/\ resp'.op = "update"
        /\ route_update_contact(resp'.user, resp'.id, b)
        /\ c.id = resp'.id /\ c.user = resp'.user)
         => /\ contacts' = (contacts \ {c}) \cup {Replaced(c, b)}
            /\ resp'.ret = {Replaced(c, b)}
            /\ resp'.status = 200]_vars

\* an update cleared a description that was set, with another contact stored
W_C5 ==
  /\ resp.op = "update" /\ resp.status = 200
  /\ \E c \in resp.before : c.description = "friend"
  /\ \E c \in resp.ret : c.description = NoneVal /\ c \in contacts
  /\ Cardinality(contacts) > 1

\* C6: delete on an owned contact removes exactly that contact and returns
\* it; from then on get on that id is not found, since an id the sequence
\* has handed out is never given to another row.
C6_DeleteThenGet ==
  /\ [][\A c \in contacts :
          (/\ resp'.op = "delete"
           /\ route_delete_contact(resp'.user, resp'.id)
           /\ c.id = resp'.id /\ c.user = resp'.user)
            => /\ contacts' = contacts \ {c}
               /\ resp'.ret = {c}
               /\ get_contact(c.id, contacts', c.user) = {}]_vars
  /\ [][\A u \in Users, i \in Ids :
          (i < nextId /\ get_contact(i, contacts, u) = {})
            => get_contact(i, contacts', u) = {}]_vars

\* a get on the id of a deleted contact came back 404 while another contact is stored
W_C6 ==
  /\ resp.op = "get" /\ resp.status = 404
  /\ resp.id < nextId /\ ~ \E c \in contacts : c.id = resp.id
  /\ contacts # {}

\* C7: create then get with the returned id gives the record with the six
\* input fields, bound to the owner, under an id no stored contact had.
C7_CreateThenGet ==
  [][\A b \in resp'.body :
       (resp'.op = "create" /\ route_create_contact(resp'.user, b))
         => \E c \in resp'.ret :
              /\ resp'.ret = {c}
              /\ get_contact(c.id, contacts', resp'.user) = {c}
              /\ c = Replaced([id |-> c.id, user |-> resp'.user], b)
              /\ ~ \E x \in contacts : x.id = c.id
              /\ contacts' = contacts \cup {c}]_vars

\* a create into a table that already holds a contact, payload without description
W_C7 ==
  /\ resp.op = "create" /\ resp.status = 201
  /\ \E b \in resp.body : "description" \in b.unset
  /\ \E c \in resp.ret : c \in contacts /\ c.description = NoneVal
  /\ Cardinality(contacts) > 1

\* the (month, day) of birthday falls on a day of [tdy, tdy + days] that lies
\* in tdy's year or the year after
AnniversaryInWindow(birthday, tdy, days) ==
  \E k \in 0..days :
    LET dt == AddDays(tdy, k)
    IN dt[2] = birthday[2] /\ dt[3] = birthday[3] /\ dt[1] \in {tdy[1], tdy[1] + 1}

\* C8: list_upcoming_birthdays returns exactly the owner's contacts whose
\* anniversary in the current or the next year lies in [today, today + days].
CE_C8_BirthdayWindow ==
  resp.op = "birthdays" =>
    resp.ret = {c \in contacts :
                  c.user = resp.user /\ AnniversaryInWindow(c.birthday, today, resp.days)}

\* the rows of a page, as a set
PageRows(pg) == {pg.ret[i] : i \in 1..Len(pg.ret)}

Owned(u) == {c \in contacts : c.user = u}

\* C9: with no mutation in between, list(owner, 10, 0) followed by
\* list(owner, 10, 10) gives two disjoint pages (of 10 and 5 for 15 contacts)
\* that together are exactly the owner's contacts, the same request gives the
\* same page on every call, and a page holds at most limit contacts, all the
\* owner's.
CE_C9_Pagination ==
  /\ \A i \in DOMAIN pages :
       /\ Len(pages[i].ret) <= pages[i].limit
       /\ PageRows(pages[i]) \subseteq Owned(pages[i].user)
  /\ \A i \in DOMAIN pages, j \in DOMAIN pages :
       (/\ pages[i].user = pages[j].user /\ pages[i].limit = pages[j].limit
        /\ pages[i].offset = pages[j].offset)
         => pages[i].ret = pages[j].ret
  /\ \A i \in DOMAIN pages, j \in DOMAIN pages :
       (/\ j = i + 1 /\ pages[i].user = pages[j].user
        /\ pages[i].limit = DefaultLimit /\ pages[i].offset = 0
        /\ pages[j].limit = DefaultLimit /\ pages[j].offset = DefaultLimit
        /\ Cardinality(Owned(pages[i].user)) \in (DefaultLimit + 1)..(2 * DefaultLimit))
         => /\ Len(pages[i].ret) = DefaultLimit
            /\ Len(pages[j].ret) = Cardinality(Owned(pages[i].user)) - DefaultLimit
            /\ PageRows(pages[i]) \cap PageRows(pages[j]) = {}
            /\ PageRows(pages[i]) \cup PageRows(pages[j]) = Owned(pages[i].user)

\* C10: every protected route serves a request only for a resolved user, and
\* serves no client more than Times (2) requests within any Seconds (5) seconds.
CE_C10_RateLimited ==
  /\ (resp.op \in Routes /\ resp.status = 200) => resp.user \in Users
  /\ \A c \in Clients : Len(recent[c]) <= Times

\* C13: GET /contacts/by_params with none of name, surname and email supplied
\* completes with the list of the contacts instead of failing.
CE_C13_NoParamsReturnsAll ==
  (resp.op = "by_params" /\ resp.params = NoParams) =>
    /\ resp.status = 200
    /\ {Columns(c) : c \in Owned(resp.user)} \subseteq resp.ret

\* the filter list_by_field applies: the first supplied one in the order
\* name, surname, email
FirstFilter(params) ==
  IF params[1] # NoneVal THEN <<"name", params[1]>>
  ELSE IF params[2] # NoneVal THEN <<"surname", params[2]>>
  ELSE <<"email", params[3]>>

\* C14: with at least one filter supplied, the result is exactly the stored
\* contacts whose first supplied field (name, then surname, then email)
\* equals the supplied value, character for character; filters supplied
\* after it have no effect.  (The contacts are those of the whole table:
\* the restriction to the caller's contacts is what C2 is about.)
C14_FilterPrecedence ==
  (resp.op = "by_params" /\ resp.params # NoParams) =>
    /\ resp.status = 200
    /\ resp.ret = {Columns(c) : c \in {x \in contacts :
                      x[FirstFilter(resp.params)[1]] = FirstFilter(resp.params)[2]}}

\* name and surname were both supplied and a contact with another surname
\* came back, while a contact with the supplied surname is stored
W_C14 ==
  /\ resp.op = "by_params"
  /\ resp.params[1] = "Ann" /\ resp.params[2] = "Kim"
  /\ \E r \in resp.ret : r.name = "Ann" /\ r.surname # "Kim"
  /\ \E c \in contacts : c.surname = "Kim"

\* C17: list_upcoming_birthdays completes with a result for every stored
\* birthday and every current year, a stored 29 February included, and such a
\* contact does not keep the owner's other contacts from being returned.
CE_C17_BirthdayCompletes ==
  resp.op = "birthdays" =>
    /\ resp.status = 200
    /\ \A c \in Owned(resp.user) :
         (/\ ~ (c.birthday[2] = 2 /\ c.birthday[3] = 29)
          /\ AnniversaryInWindow(c.birthday, today, resp.days))
           => c \in resp.ret

\* C11: a signup with an email no account has answers 201 and stores one new
\* account, not confirmed; a signup with an email that has an account answers
\* 409 and leaves the users table as it was; no two accounts share an email.
C11_DuplicateSignup ==
  /\ [](\A u1 \in users, u2 \in users : u1.email = u2.email => u1 = u2)
  /\ [][resp'.op = "signup" =>
          IF \E u \in users : u.email = resp'.params[1]
          THEN resp'.status = 409 /\ users' = users
          ELSE /\ resp'.status = 201
               /\ users \subseteq users'
               /\ \E u \in users' \ users :
                    /\ users' = users \cup {u}
                    /\ u.email = resp'.params[1]
                    /\ ~ u.confirmed
                    /\ u.password # resp'.params[2]]_vars

\* a second signup with a stored email, under another password, answered 409
W_C11 ==
  /\ resp.op = "signup" /\ resp.status = 409
  /\ \E u \in users : /\ u.email = resp.params[1]
                      /\ ~ verify_password(resp.params[2], u.password)

\* C12: a login for an account that is not confirmed answers 401 NotConfirmed
\* and issues no token, whatever the password; a login only succeeds for an
\* account the confirmation step has confirmed.
C12_LoginNeedsConfirmation ==
  /\ [][(resp'.op = "login" /\ \E u \in users : u.email = resp'.params[1] /\ ~ u.confirmed)
          => /\ resp'.status = 401
             /\ resp'.params[3] = "NotConfirmed"
             /\ resp'.ret = {}
             /\ users' = users]_vars
  /\ []((resp.op = "login" /\ resp.status = 200)
          => \E u \in users : u.email = resp.params[1] /\ u.confirmed)
  /\ [][\A u \in users' : u.confirmed =>
          \/ \E v \in users : v.email = u.email /\ v.confirmed
          \/ resp'.op = "confirm" /\ resp'.params[1] = u.email]_vars

\* a login with the right password was refused because the account is not confirmed
W_C12 ==
  /\ resp.op = "login" /\ resp.status = 401 /\ resp.ret = {}
  /\ \E u \in users : /\ u.email = resp.params[1] /\ ~ u.confirmed
                      /\ verify_password(resp.params[2], u.password)

\* C15: once a concurrent update and delete of the same contact of the same
\* owner have both returned, what each returned and the table they left are
\* those of one of the two serial orders.
CE_C15_UpdateDeleteSerializable ==
  (/\ procs.upd.pc = "done" /\ procs.del.pc = "done"
   /\ procs.upd.id = procs.del.id /\ procs.upd.user = procs.del.user)
  => [upd |-> procs.upd.out, del |-> procs.del.out, db |-> contacts]
       \in SerialOutcomes(procs.start, procs.upd, procs.del)

\* C16: a request from an address in banned_ips is answered 403 "You are
\* banned" and never reaches the next handler; a request from an address not
\* in the list reaches the next handler and gets that handler's response.
CE_C16_BannedRejected ==
  resp.op = "ban" =>
    LET ip == ip_address(resp.params[1])
        listed == \E i \in DOMAIN banned_ips : banned_ips[i] = ip.value
    IN /\ (~ ip.raised /\ listed) =>
            /\ resp.status = 403
            /\ resp.params[2] = "You are banned"
            /\ resp.params[3] = "not called"
       /\ (~ ip.raised /\ ~ listed) =>
            /\ resp.params[3] = "called"
            /\ resp.ret = resp.before

====
